---- MODULE Spec2Model ----
(***************************************************************************)
(* Model of the obstacle registry and the scan-line detour router of      *)
(* src/obstacle_manager.py (class ObstacleManager).                       *)
(*                                                                         *)
(* Numbers.  The source computes in floating point on (lat, lon) degrees. *)
(* The model computes exactly, on an integer lattice:                     *)
(*   - a point is <<lat, lon>>, in lattice steps.  One step is the angle  *)
(*     that to_meters maps to one model length unit, so the source's      *)
(*     factor (pi / 180) * earth_radius_m is 1 in model units;            *)
(*   - the lattice lies in a band around the equator in which             *)
(*     cos(radians(lat)) is 1 at the lattice's resolution (cos_lat);      *)
(*   - a distance is carried as its square (sqrt is monotone on the       *)
(*     non-negative numbers, so every comparison of two distances is the  *)
(*     comparison of their squares);                                      *)
(*   - a quotient is compared by cross-multiplying with its positive      *)
(*     denominator.  Where the source needs the value of a quotient or a  *)
(*     square root (the coordinates of a bypass point), ExactDiv and Sqrt *)
(*     give it when it is a lattice value and have no value otherwise;    *)
(*     the inputs are drawn so that they always have one.                 *)
(* A raised Python exception is a result [exc |-> <its name>].            *)
(***************************************************************************)
EXTENDS Integers, Sequences, FiniteSets, TLC

VARIABLES
    obstacles,  \* ObstacleManager.obstacles: the registry, a list of Obstacle
    next_id,    \* the identity the next constructed Obstacle object gets
    op,         \* the operation that ran last
    args,       \* its arguments
    ret,        \* what it returned
    ui          \* the ObstacleUIExtension that owns the registry

vars == <<obstacles, next_id, op, args, ret, ui>>

----------------------------------------------------------------------------
(* Arithmetic *)

Abs(x) == IF x < 0 THEN -x ELSE x

Sq(x) == x * x

Max2(a, b) == IF a >= b THEN a ELSE b

Min2(a, b) == IF a <= b THEN a ELSE b

\* a / b for b > 0, when it is an integer
Divides(b, a) == a % b = 0

ExactDiv(a, b) == IF Divides(b, a) THEN a \div b ELSE CHOOSE q \in {} : TRUE

IsSquare(n) == \E k \in 0..n : k * k = n

\* math.sqrt(n), when it is an integer
Sqrt(n) == CHOOSE k \in 0..n : k * k = n

\* sqrt(d) <= k and sqrt(d) >= k, for d >= 0 and any integer k
SqrtLe(d, k) == k >= 0 /\ d <= k * k

SqrtGe(d, k) == k <= 0 \/ d >= k * k

----------------------------------------------------------------------------
(* Obstacle *)

Obstacle(id, center, radius, safe_distance) ==
    [id |-> id, center |-> center, radius |-> radius, safe_distance |-> safe_distance]

effective_radius(obstacle) == obstacle.radius + obstacle.safe_distance

----------------------------------------------------------------------------
(* Geometry *)

\* math.cos(math.radians(lat)) on the modelled band
cos_lat(lat) == 1

\* the closure to_meters(lat, lon) of a projection centred at (cx, cy)
to_meters(lat, lon, cx, cy) == <<(lon - cy) * cos_lat(cx), lat - cx>>

\* the closure to_latlon(x, y) of a projection centred at (cx, cy)
to_latlon(x, y, cx, cy) == <<cx + y, cy + ExactDiv(x, cos_lat(cx))>>

\* calculate_distance(p1, p2) squared; avg_lat is in half steps
calculate_distance_sq(p1, p2) ==
    LET dlat == p2[1] - p1[1]
        dlon == p2[2] - p1[2]
        x == dlon * cos_lat(p1[1] + p2[1])
        y == dlat
    IN  x * x + y * y

\* <= where the source has <
line_intersects_circle_le(p1, p2, center, radius_m) ==
    LET m1 == to_meters(p1[1], p1[2], center[1], center[2])
        m2 == to_meters(p2[1], p2[2], center[1], center[2])
        x1 == m1[1]
        y1 == m1[2]
        dx == m2[1] - x1
        dy == m2[2] - y1
        dr2 == dx * dx + dy * dy
        tnum == Max2(0, Min2(dr2, -(x1 * dx + y1 * dy)))
        closest_x == x1 * dr2 + tnum * dx
        closest_y == y1 * dr2 + tnum * dy
    IN  IF dr2 = 0
        THEN (x1 * x1 + y1 * y1) <= radius_m * radius_m
        ELSE closest_x * closest_x + closest_y * closest_y
                 <= (radius_m * radius_m) * (dr2 * dr2)

\* t is tnum / dr2, and the closest point (closest_x, closest_y) / dr2
line_intersects_circle(p1, p2, center, radius_m) ==
    LET m1 == to_meters(p1[1], p1[2], center[1], center[2])
        m2 == to_meters(p2[1], p2[2], center[1], center[2])
        x1 == m1[1]
        y1 == m1[2]
        dx == m2[1] - x1
        dy == m2[2] - y1
        dr2 == dx * dx + dy * dy
        tnum == Max2(0, Min2(dr2, -(x1 * dx + y1 * dy)))
        closest_x == x1 * dr2 + tnum * dx
        closest_y == y1 * dr2 + tnum * dy
    IN  IF dr2 = 0
        THEN (x1 * x1 + y1 * y1) <= radius_m * radius_m
        ELSE closest_x * closest_x + closest_y * closest_y
                 < (radius_m * radius_m) * (dr2 * dr2)

check_waypoint_collision(obs, waypoint) ==
    \E i \in 1..Len(obs) :
        calculate_distance_sq(waypoint, obs[i].center) < Sq(effective_radius(obs[i]))

check_segment_collision(obs, p1, p2) ==
    SelectSeq(obs, LAMBDA o : line_intersects_circle(p1, p2, o.center, effective_radius(o)))

----------------------------------------------------------------------------
(* Program constants *)

\* effective_radius * 1.2 is effective_radius * DetourNum / DetourDen
DetourDen == 5

\* radius = effective_radius, not inflated
DetourNumPlain == DetourDen

DetourNum == 6

\* t_entry = 0.25 and t_exit = 0.75
TEntryNum == 1

TExitNum == 3

TDen == 4

\* length < 0.001
MinLengthDen == 1000

\* threshold = median_dist * 0.6
ThresholdNum == 3

ThresholdDen == 5

----------------------------------------------------------------------------
(* Detour planner *)

\* both roots kept, whether or not they lie in [0, 1]
calculate_line_circle_intersection_unfiltered(p1, p2, obstacle) ==
    LET cx == obstacle.center[1]
        cy == obstacle.center[2]
        radius == effective_radius(obstacle)
        m1 == to_meters(p1[1], p1[2], cx, cy)
        m2 == to_meters(p2[1], p2[2], cx, cy)
        x1 == m1[1]
        y1 == m1[2]
        dx == m2[1] - x1
        dy == m2[2] - y1
        a == dx * dx + dy * dy
        b == 2 * (dx * x1 + dy * y1)
        c == x1 * x1 + y1 * y1 - radius * radius
        discriminant == b * b - 4 * a * c
    IN  IF discriminant < 0 \/ a = 0
        THEN <<>>
        ELSE <<-1, 1>>

\* The roots t1 = (-b - sqrt(disc)) / (2a) and t2 = (-b + sqrt(disc)) / (2a) that
\* lie in [0, 1], in that order, each named by the sign before its sqrt.  The
\* source maps each kept root to a point; its callers read only how many there are
\* (_generate_tangent_detour never reads inter1 and inter2).
calculate_line_circle_intersection(p1, p2, obstacle) ==
    LET cx == obstacle.center[1]
        cy == obstacle.center[2]
        radius == effective_radius(obstacle)
        m1 == to_meters(p1[1], p1[2], cx, cy)
        m2 == to_meters(p2[1], p2[2], cx, cy)
        x1 == m1[1]
        y1 == m1[2]
        dx == m2[1] - x1
        dy == m2[2] - y1
        a == dx * dx + dy * dy
        b == 2 * (dx * x1 + dy * y1)
        c == x1 * x1 + y1 * y1 - radius * radius
        discriminant == b * b - 4 * a * c
        \* 0 <= t <= 1 for t = (-b + sign * sqrt(discriminant)) / (2a), a > 0
        in_segment(sign) ==
            IF sign < 0
            THEN SqrtLe(discriminant, -b) /\ SqrtGe(discriminant, -b - 2 * a)
            ELSE SqrtGe(discriminant, b) /\ SqrtLe(discriminant, 2 * a + b)
    IN  IF discriminant < 0 \/ a = 0
        THEN <<>>
        ELSE SelectSeq(<<-1, 1>>, in_segment)

\* The bypass points of p1 -> p2 around obstacle: <<entry_point, exit_point>>.
\* With length the segment's length, the unit direction is (dx, dy) / length and
\* radius is effective_radius * DetourNum / DetourDen, so each candidate offset is
\* (+-dy, -+dx) * effective_radius * DetourNum / (DetourDen * length); off_den is
\* that denominator, and the two squared magnitudes are compared over its square.
generate_tangent_detour(p1, p2, obstacle) ==
    LET cx == obstacle.center[1]
        cy == obstacle.center[2]
        radius_num == effective_radius(obstacle) * DetourNum
        m1 == to_meters(p1[1], p1[2], cx, cy)
        m2 == to_meters(p2[1], p2[2], cx, cy)
        x1 == m1[1]
        y1 == m1[2]
        dx == m2[1] - x1
        dy == m2[2] - y1
        length == Sqrt(dx * dx + dy * dy)
        off_den == DetourDen * length
        detour1_x == (-dy) * radius_num
        detour1_y == dx * radius_num
        detour2_x == -detour1_x
        detour2_y == -detour1_y
        dist1_sq == detour1_x * detour1_x + detour1_y * detour1_y
        dist2_sq == detour2_x * detour2_x + detour2_y * detour2_y
        detour_x == IF dist1_sq < dist2_sq THEN detour1_x ELSE detour2_x
        detour_y == IF dist1_sq < dist2_sq THEN detour1_y ELSE detour2_y
        entry_x == x1 + ExactDiv(dx * TEntryNum, TDen) + ExactDiv(detour_x, off_den)
        entry_y == y1 + ExactDiv(dy * TEntryNum, TDen) + ExactDiv(detour_y, off_den)
        exit_x == x1 + ExactDiv(dx * TExitNum, TDen) + ExactDiv(detour_x, off_den)
        exit_y == y1 + ExactDiv(dy * TExitNum, TDen) + ExactDiv(detour_y, off_den)
    IN  IF length * MinLengthDen < 1
        THEN <<>>
        ELSE <<to_latlon(entry_x, entry_y, cx, cy), to_latlon(exit_x, exit_y, cx, cy)>>

\* `if p1_lat == p2_lat or lat <= xinters: inside = not inside` in the loop state
\* st, [inside, xset, xnum, xden, exc, fresh, stale]: xinters is xnum / xden
\* (xden > 0) once an iteration has assigned it (xset), and reading it before that
\* raises UnboundLocalError.  fresh and stale are history: fresh, the current
\* iteration has assigned xinters; stale, some iteration has read a value of
\* xinters that an earlier iteration assigned.
pip_toggle(st, lat, p1_lat, p2_lat) ==
    IF p1_lat = p2_lat
    THEN [st EXCEPT !.inside = ~st.inside]
    ELSE IF ~st.xset
         THEN [st EXCEPT !.exc = "UnboundLocalError"]
         ELSE IF lat * st.xden <= st.xnum
              THEN [st EXCEPT !.inside = ~st.inside, !.stale = @ \/ ~st.fresh]
              ELSE [st EXCEPT !.stale = @ \/ ~st.fresh]

\* `if p1_lon != p2_lon: xinters = ...`, the quotient kept as num / den with den > 0
pip_xinters(st, lon, e1, e2) ==
    LET den == e2[2] - e1[2]
        num == (lon - e1[2]) * (e2[1] - e1[1]) + e1[1] * den
    IN  IF e1[2] # e2[2]
        THEN [st EXCEPT !.xset = TRUE,
                        !.xnum = IF den > 0 THEN num ELSE -num,
                        !.xden = Abs(den),
                        !.fresh = TRUE]
        ELSE [st EXCEPT !.fresh = FALSE]

\* the block is entered also when lon == min(p1_lon, p2_lon)
pip_edge_ge(st, lat, lon, e1, e2) ==
    IF lon >= Min2(e1[2], e2[2]) /\ lon <= Max2(e1[2], e2[2]) /\ lat <= Max2(e1[1], e2[1])
    THEN pip_toggle(pip_xinters(st, lon, e1, e2), lat, e1[1], e2[1])
    ELSE st

\* One iteration of point_in_polygon's loop, on the edge e1 -> e2, each
\* (lat, lon).
pip_edge(st, lat, lon, e1, e2) ==
    IF lon > Min2(e1[2], e2[2]) /\ lon <= Max2(e1[2], e2[2]) /\ lat <= Max2(e1[1], e2[1])
    THEN pip_toggle(pip_xinters(st, lon, e1, e2), lat, e1[1], e2[1])
    ELSE st

\* iteration i of range(1, n + 1): the edge polygon[i - 1] -> polygon[i % n],
\* here with indices from 1
RECURSIVE pip_loop(_, _, _, _, _)
pip_loop(st, lat, lon, polygon, i) ==
    LET n == Len(polygon)
    IN  IF i > n \/ st.exc # "None"
        THEN st
        ELSE pip_loop(pip_edge(st, lat, lon, polygon[i], polygon[(i % n) + 1]),
                      lat, lon, polygon, i + 1)

\* what point_in_polygon returns or raises after its loop ended in state st
pip_result(st) == [exc |-> st.exc, value |-> st.inside]

\* inside = False, and xinters not assigned
pip_init ==
    [inside |-> FALSE, xset |-> FALSE, xnum |-> 0, xden |-> 1, exc |-> "None",
     fresh |-> FALSE, stale |-> FALSE]

\* the loop state point_in_polygon ends in: polygon[0] of an empty list raises
\* IndexError
pip_run(point, polygon) ==
    IF Len(polygon) = 0
    THEN [pip_init EXCEPT !.exc = "IndexError"]
    ELSE pip_loop(pip_init, point[1], point[2], polygon, 1)

\* [exc, value]
point_in_polygon(point, polygon) == pip_result(pip_run(point, polygon))

\* the last of the colliding obstacles
first_obstacle_last(colliding) == colliding[Len(colliding)]

\* obstacle = obstacles[0]
first_obstacle(colliding) == colliding[1]

\* `if boundary_corners is None or self.point_in_polygon(dp, boundary_corners):
\* valid_detour.append(dp)`, inp being what the condition gave
keep_valid(acc, dp, inp) ==
    IF inp.exc # "None"
    THEN [acc EXCEPT !.exc = inp.exc]
    ELSE IF inp.value
         THEN [acc EXCEPT !.value = Append(acc.value, dp)]
         ELSE acc

\* the loop over detour_points: [exc, value], value the points kept so far
RECURSIVE valid_detour(_, _, _, _)
valid_detour(detour_points, boundary_corners, k, acc) ==
    IF k > Len(detour_points) \/ acc.exc # "None"
    THEN acc
    ELSE valid_detour(detour_points, boundary_corners, k + 1,
             keep_valid(acc, detour_points[k],
                        IF boundary_corners.none
                        THEN [exc |-> "None", value |-> TRUE]
                        ELSE point_in_polygon(detour_points[k], boundary_corners.corners)))

\* the detour is abandoned unless every bypass point was kept
detour_result_all_or_nothing(p1, p2, valid) ==
    IF valid.exc # "None"
    THEN [exc |-> valid.exc, value |-> <<>>]
    ELSE IF Len(valid.value) < 2
         THEN [exc |-> "None", value |-> <<p1, p2>>]
         ELSE [exc |-> "None", value |-> <<p1>> \o valid.value \o <<p2>>]

\* what _segment_scan_line returns once the loop over detour_points gave valid
detour_result(p1, p2, valid) ==
    IF valid.exc # "None"
    THEN [exc |-> valid.exc, value |-> <<>>]
    ELSE IF valid.value = <<>>
         THEN [exc |-> "None", value |-> <<p1, p2>>]
         ELSE [exc |-> "None", value |-> <<p1>> \o valid.value \o <<p2>>]

\* _segment_scan_line for obstacle = obstacles[0]
segment_around(p1, p2, obstacle, boundary_corners) ==
    IF Len(calculate_line_circle_intersection(p1, p2, obstacle)) < 2
    THEN [exc |-> "None", value |-> <<p1, p2>>]
    ELSE detour_result(p1, p2,
             valid_detour(generate_tangent_detour(p1, p2, obstacle), boundary_corners, 1,
                          [exc |-> "None", value |-> <<>>]))

\* [exc, value]; boundary_corners is [none, corners]
segment_scan_line(p1, p2, colliding, boundary_corners) ==
    segment_around(p1, p2, first_obstacle(colliding), boundary_corners)

----------------------------------------------------------------------------
(* Scan segmenter *)

\* sorted(): insertion of x into an ascending list
RECURSIVE sorted_insert(_, _)
sorted_insert(s, x) ==
    IF s = <<>>
    THEN <<x>>
    ELSE IF x <= Head(s)
         THEN <<x>> \o s
         ELSE <<Head(s)>> \o sorted_insert(Tail(s), x)

RECURSIVE sorted(_)
sorted(s) == IF s = <<>> THEN <<>> ELSE sorted_insert(sorted(Tail(s)), Head(s))

\* distances[i] is (i - 1, i, dist squared), the source's indices from 0
distances_of(waypoints) ==
    [i \in 1..(Len(waypoints) - 1) |->
        [start |-> i - 1, end |-> i,
         dist_sq |-> calculate_distance_sq(waypoints[i], waypoints[i + 1])]]

\* the lower of the two middle elements
median_dist_sq_low(distances) ==
    LET sorted_dists == sorted([i \in 1..Len(distances) |-> distances[i].dist_sq])
    IN  sorted_dists[((Len(sorted_dists) - 1) \div 2) + 1]

\* sorted_dists[len(sorted_dists) // 2], squared
median_dist_sq(distances) ==
    LET sorted_dists == sorted([i \in 1..Len(distances) |-> distances[i].dist_sq])
    IN  sorted_dists[(Len(sorted_dists) \div 2) + 1]

\* dist > median_dist * 0.6, on the squares
is_scan(dist_sq, median_sq) ==
    dist_sq * (ThresholdDen * ThresholdDen) > median_sq * (ThresholdNum * ThresholdNum)

identify_scan_segments(waypoints) ==
    IF Len(waypoints) < 2
    THEN <<>>
    ELSE LET distances == distances_of(waypoints)
             median_sq == median_dist_sq(distances)
         IN  [i \in 1..Len(distances) |->
                 [type |-> IF is_scan(distances[i].dist_sq, median_sq)
                           THEN "scan" ELSE "turn",
                  start |-> distances[i].start,
                  end |-> distances[i].end]]

----------------------------------------------------------------------------
(* Path assembler *)

InSeq(x, s) == \E i \in 1..Len(s) : s[i] = x

\* skips a waypoint whose value is already in result_waypoints
append_index_by_value(acc, waypoints, idx) ==
    IF InSeq(waypoints[idx + 1], acc.result)
    THEN [acc EXCEPT !.processed = @ \cup {idx}]
    ELSE [acc EXCEPT !.result = Append(@, waypoints[idx + 1]),
                     !.processed = @ \cup {idx}]

\* appends whether or not idx is processed
append_index_always(acc, waypoints, idx) ==
    [acc EXCEPT !.result = Append(@, waypoints[idx + 1]),
                !.processed = @ \cup {idx}]

\* if idx not in processed_indices: result_waypoints.append(waypoints[idx]);
\* processed_indices.add(idx).  acc is [result, processed, exc].
append_index(acc, waypoints, idx) ==
    IF idx \in acc.processed
    THEN acc
    ELSE [acc EXCEPT !.result = Append(@, waypoints[idx + 1]),
                     !.processed = @ \cup {idx}]

\* for wp in segmented_waypoints: if wp not in result_waypoints: append
RECURSIVE append_new(_, _)
append_new(result, segmented) ==
    IF segmented = <<>>
    THEN result
    ELSE append_new(IF InSeq(Head(segmented), result)
                    THEN result
                    ELSE Append(result, Head(segmented)),
                    Tail(segmented))

\* the collision branch, segmented being what _segment_scan_line gave
assemble_segmented(acc, seg, segmented) ==
    IF segmented.exc # "None"
    THEN [acc EXCEPT !.exc = segmented.exc]
    ELSE [acc EXCEPT !.result = append_new(@, segmented.value),
                     !.processed = @ \cup {seg.start, seg.end}]

\* both ends of a segment, each if its index is not processed
append_ends(acc, waypoints, seg) ==
    append_index(append_index(acc, waypoints, seg.start), waypoints, seg.end)

\* a scan segment p1 -> p2, colliding_obstacles being what check_segment_collision
\* gave
assemble_scan(waypoints, boundary_corners, seg, acc, p1, p2, colliding_obstacles) ==
    IF colliding_obstacles = <<>>
    THEN append_ends(acc, waypoints, seg)
    ELSE assemble_segmented(acc, seg,
             segment_scan_line(p1, p2, colliding_obstacles, boundary_corners))

\* one iteration of the loop over scan_segments
assemble_segment(obs, waypoints, boundary_corners, seg, acc) ==
    IF seg.type = "scan"
    THEN assemble_scan(waypoints, boundary_corners, seg, acc,
                       waypoints[seg.start + 1], waypoints[seg.end + 1],
                       check_segment_collision(obs, waypoints[seg.start + 1],
                                               waypoints[seg.end + 1]))
    ELSE append_ends(acc, waypoints, seg)

RECURSIVE assemble(_, _, _, _, _, _)
assemble(obs, waypoints, boundary_corners, scan_segments, k, acc) ==
    IF k > Len(scan_segments) \/ acc.exc # "None"
    THEN acc
    ELSE assemble(obs, waypoints, boundary_corners, scan_segments, k + 1,
                  assemble_segment(obs, waypoints, boundary_corners, scan_segments[k], acc))

\* no final loop
final_sweep_none(waypoints, i, acc) == acc

\* the final loop over enumerate(waypoints)
RECURSIVE final_sweep(_, _, _)
final_sweep(waypoints, i, acc) ==
    IF i >= Len(waypoints) \/ acc.exc # "None"
    THEN acc
    ELSE final_sweep(waypoints, i + 1, append_index(acc, waypoints, i))

\* return result_waypoints, or the exception a segment raised
route_result(acc) ==
    [exc |-> acc.exc, value |-> IF acc.exc = "None" THEN acc.result ELSE <<>>]

\* route: [exc, value], with obs the registry and boundary_corners [none, corners]
filter_waypoints_with_detour(obs, waypoints, boundary_corners) ==
    IF waypoints = <<>> \/ obs = <<>>
    THEN [exc |-> "None", value |-> waypoints]
    ELSE route_result(
             final_sweep(waypoints, 0,
                 assemble(obs, waypoints, boundary_corners,
                          identify_scan_segments(waypoints), 1,
                          [result |-> <<>>, processed |-> {}, exc |-> "None"])))

----------------------------------------------------------------------------
(* Obstacle registry *)

\* obstacles.append(Obstacle(center, radius, safe_distance)); id is the new
\* object's identity
add_obstacle(obs, id, center, radius, safe_distance) ==
    Append(obs, Obstacle(id, center, radius, safe_distance))

\* the index of the first element that is the object `obstacle`, 0 if there is none
index_of(obs, obstacle) ==
    IF \E i \in 1..Len(obs) : obs[i].id = obstacle.id
    THEN CHOOSE i \in 1..Len(obs) :
             /\ obs[i].id = obstacle.id
             /\ \A j \in 1..(i - 1) : obs[j].id # obstacle.id
    ELSE 0

RemoveAt(s, i) == [j \in 1..(Len(s) - 1) |-> IF j < i THEN s[j] ELSE s[j + 1]]

\* [obstacles, ret]
remove_obstacle(obs, obstacle) ==
    LET i == index_of(obs, obstacle)
    IN  IF i # 0
        THEN [obstacles |-> RemoveAt(obs, i), ret |-> TRUE]
        ELSE [obstacles |-> obs, ret |-> FALSE]

\* The loop over self.obstacles: st is [nearest, min_sq], nearest the index of
\* nearest_obs (0: None) and min_sq the square of min_dist (read only once
\* nearest is set; before that min_dist is float('inf')).
RECURSIVE nearest_loop(_, _, _, _)
nearest_loop(obs, coords, i, st) ==
    IF i > Len(obs)
    THEN st
    ELSE LET dist_sq == calculate_distance_sq(coords, obs[i].center)
         IN  nearest_loop(obs, coords, i + 1,
                 IF st.nearest = 0 \/ dist_sq < st.min_sq
                 THEN [nearest |-> i, min_sq |-> dist_sq]
                 ELSE st)

\* [obstacles, ret], ret [none] or [none, obstacle]: the cutoff enforced
remove_nearest_obstacle_cutoff(obs, coords, threshold_m) ==
    LET st == nearest_loop(obs, coords, 1, [nearest |-> 0, min_sq |-> 0])
    IN  IF obs = <<>> \/ st.nearest = 0 \/ st.min_sq > threshold_m * threshold_m
        THEN [obstacles |-> obs, ret |-> [none |-> TRUE]]
        ELSE [obstacles |-> remove_obstacle(obs, obs[st.nearest]).obstacles,
              ret |-> [none |-> FALSE, obstacle |-> obs[st.nearest]]]

\* [obstacles, ret], ret [none] or [none, obstacle]
remove_nearest_obstacle(obs, coords, threshold_m) ==
    LET st == nearest_loop(obs, coords, 1, [nearest |-> 0, min_sq |-> 0])
    IN  IF obs = <<>> \/ st.nearest = 0
        THEN [obstacles |-> obs, ret |-> [none |-> TRUE]]
        ELSE [obstacles |-> remove_obstacle(obs, obs[st.nearest]).obstacles,
              ret |-> [none |-> FALSE, obstacle |-> obs[st.nearest]]]

clear_all(obs) == <<>>

----------------------------------------------------------------------------
(* ObstacleUIExtension (src/obstacle_ui_extension.py) *)

\* self.default_radius = 5.0 and self.default_safe_distance = 1.0
DefaultRadius == 5

DefaultSafeDistance == 1

\* remove_nearest_obstacle((lat, lon), threshold_m=100.0)
DeleteThreshold == 100

\* The extension after __init__.  selected_obstacle is the identity of the
\* selected Obstacle object, 0 for None.  map_command is the handler the map
\* widget calls on a left click; displayed is the set of Obstacle objects whose
\* marker and circles are on the map; info_count is the count info_label shows.
ui_init ==
    [creating_mode |-> FALSE,
     delete_mode |-> FALSE,
     selected_obstacle |-> 0,
     default_radius |-> DefaultRadius,
     default_safe_distance |-> DefaultSafeDistance,
     original_map_click_handler |-> "None",
     map_command |-> "on_map_click",
     displayed |-> {},
     info_count |-> 0]

enter_create_mode(u) ==
    [u EXCEPT !.creating_mode = TRUE,
              !.delete_mode = FALSE,
              !.original_map_click_handler = "on_map_click",
              !.map_command = "on_create_click"]

exit_create_mode(u) ==
    IF u.original_map_click_handler # "None"
    THEN [u EXCEPT !.creating_mode = FALSE,
                   !.map_command = u.original_map_click_handler,
                   !.original_map_click_handler = "None"]
    ELSE [u EXCEPT !.creating_mode = FALSE]

toggle_create_mode(u) ==
    IF u.creating_mode THEN exit_create_mode(u) ELSE enter_create_mode(u)

enter_delete_mode(u) ==
    [u EXCEPT !.delete_mode = TRUE,
              !.creating_mode = FALSE,
              !.original_map_click_handler = "on_map_click",
              !.map_command = "on_delete_click"]

exit_delete_mode(u) ==
    IF u.original_map_click_handler # "None"
    THEN [u EXCEPT !.delete_mode = FALSE,
                   !.map_command = u.original_map_click_handler,
                   !.original_map_click_handler = "None"]
    ELSE [u EXCEPT !.delete_mode = FALSE]

toggle_delete_mode(u) ==
    IF u.delete_mode THEN exit_delete_mode(u) ELSE enter_delete_mode(u)

\* info_label shows len(self.obstacle_manager.obstacles)
update_info(u, obs) == [u EXCEPT !.info_count = Len(obs)]

\* [obstacles, ui]: the new Obstacle object, of identity id, is registered,
\* displayed and selected
on_create_click(obs, u, id, coords) ==
    LET added == add_obstacle(obs, id, coords, u.default_radius, u.default_safe_distance)
    IN  [obstacles |-> added,
         ui |-> update_info([u EXCEPT !.displayed = @ \cup {id},
                                      !.selected_obstacle = id],
                            added)]

\* the selection is kept when the selected obstacle is removed
on_delete_click_keep_selection(obs, u, coords) ==
    LET r == remove_nearest_obstacle(obs, coords, DeleteThreshold)
    IN  IF r.ret.none
        THEN [obstacles |-> r.obstacles, ui |-> exit_delete_mode(u)]
        ELSE [obstacles |-> r.obstacles,
              ui |-> exit_delete_mode(
                         update_info([u EXCEPT !.displayed = @ \ {r.ret.obstacle.id}],
                                     r.obstacles))]

\* [obstacles, ui]: `if self.selected_obstacle == removed` compares identities
\* (Obstacle defines no __eq__)
on_delete_click(obs, u, coords) ==
    LET r == remove_nearest_obstacle(obs, coords, DeleteThreshold)
    IN  IF r.ret.none
        THEN [obstacles |-> r.obstacles, ui |-> exit_delete_mode(u)]
        ELSE [obstacles |-> r.obstacles,
              ui |-> exit_delete_mode(
                         update_info([u EXCEPT !.displayed = @ \ {r.ret.obstacle.id},
                                               !.selected_obstacle =
                                                   IF @ = r.ret.obstacle.id THEN 0 ELSE @],
                                     r.obstacles))]

\* [obstacles, ui]
clear_all_obstacles(obs, u) ==
    [obstacles |-> clear_all(obs),
     ui |-> update_info([u EXCEPT !.displayed = @ \ {obs[i].id : i \in 1..Len(obs)},
                                  !.selected_obstacle = 0],
                        clear_all(obs))]

\* selected_obstacle.radius = value, on the object wherever it is held, and
\* update_obstacle_display(selected_obstacle), which draws it again
on_radius_change(obs, u, value) ==
    IF u.selected_obstacle # 0
    THEN [obstacles |-> [i \in 1..Len(obs) |->
                            IF obs[i].id = u.selected_obstacle
                            THEN [obs[i] EXCEPT !.radius = value]
                            ELSE obs[i]],
          ui |-> [u EXCEPT !.default_radius = value,
                           !.displayed = @ \cup {u.selected_obstacle}]]
    ELSE [obstacles |-> obs, ui |-> [u EXCEPT !.default_radius = value]]

on_safe_distance_change(obs, u, value) ==
    IF u.selected_obstacle # 0
    THEN [obstacles |-> [i \in 1..Len(obs) |->
                            IF obs[i].id = u.selected_obstacle
                            THEN [obs[i] EXCEPT !.safe_distance = value]
                            ELSE obs[i]],
          ui |-> [u EXCEPT !.default_safe_distance = value,
                           !.displayed = @ \cup {u.selected_obstacle}]]
    ELSE [obstacles |-> obs, ui |-> [u EXCEPT !.default_safe_distance = value]]

----------------------------------------------------------------------------
(* Inputs *)

\* boundary_corners: None, or a list of vertices
NoBoundary == [none |-> TRUE, corners |-> <<>>]

Polygon(corners) == [none |-> FALSE, corners |-> corners]

\* at most this many obstacles in the registry, and this many ever constructed
MaxObstacles == 2

MaxAdds == 3

Centers == {<<0, 16>>, <<-3, 16>>, <<0, 0>>}

Radii == {3}

SafeDistances == {2, 7}

Thresholds == {1, 50}

ClickPoints == {<<0, 16>>, <<-3, 0>>, <<0, 8>>}

RegistryPaths ==
    {<<<<0, 0>>, <<0, 32>>>>, <<<<0, 32>>, <<0, 0>>>>,
     <<<<0, 0>>, <<0, 32>>, <<4, 32>>>>, <<<<4, 0>>, <<4, 32>>>>}

BigRect == Polygon(<<<<-40, -8>>, <<-40, 40>>, <<40, 40>>, <<40, -8>>>>)

----------------------------------------------------------------------------
(* The registry as a state machine: every public method, on any registry the *)
(* methods can build                                                         *)

Init ==
    /\ obstacles = <<>>
    /\ next_id = 1
    /\ op = "init"
    /\ ui = ui_init
    /\ args = [before |-> <<>>]
    /\ ret = [none |-> TRUE]

AddObstacle ==
    \E center \in Centers, radius \in Radii, safe_distance \in SafeDistances :
        /\ Len(obstacles) < MaxObstacles
        /\ next_id <= MaxAdds
        /\ obstacles' = add_obstacle(obstacles, next_id, center, radius, safe_distance)
        /\ next_id' = next_id + 1
        /\ op' = "add_obstacle"
        /\ args' = [before |-> obstacles, center |-> center, radius |-> radius,
                    safe_distance |-> safe_distance]
        /\ ret' = Obstacle(next_id, center, radius, safe_distance)
        /\ UNCHANGED ui

\* the argument is any Obstacle object add_obstacle has returned so far
RemoveObstacle ==
    \E id \in 1..(next_id - 1) :
        LET r == remove_obstacle(obstacles, [id |-> id])
        IN  /\ obstacles' = r.obstacles
            /\ op' = "remove_obstacle"
            /\ args' = [before |-> obstacles, id |-> id]
            /\ ret' = r.ret
            /\ UNCHANGED <<next_id, ui>>

RemoveNearestObstacle ==
    \E coords \in ClickPoints, threshold_m \in Thresholds :
        LET r == remove_nearest_obstacle(obstacles, coords, threshold_m)
        IN  /\ obstacles' = r.obstacles
            /\ op' = "remove_nearest_obstacle"
            /\ args' = [before |-> obstacles, coords |-> coords,
                        threshold_m |-> threshold_m]
            /\ ret' = r.ret
            /\ UNCHANGED <<next_id, ui>>

ClearAll ==
    /\ obstacles' = clear_all(obstacles)
    /\ op' = "clear_all"
    /\ args' = [before |-> obstacles]
    /\ ret' = [none |-> TRUE]
    /\ UNCHANGED <<next_id, ui>>

CheckSegmentCollision ==
    \E path \in {w \in RegistryPaths : Len(w) = 2} :
        /\ op' = "check_segment_collision"
        /\ args' = [before |-> obstacles, p1 |-> path[1], p2 |-> path[2]]
        /\ ret' = check_segment_collision(obstacles, path[1], path[2])
        /\ UNCHANGED <<obstacles, next_id, ui>>

FilterWaypoints ==
    \E waypoints \in RegistryPaths, boundary_corners \in {NoBoundary, BigRect} :
        /\ op' = "filter_waypoints_with_detour"
        /\ args' = [before |-> obstacles, waypoints |-> waypoints,
                    boundary_corners |-> boundary_corners]
        /\ ret' = filter_waypoints_with_detour(obstacles, waypoints, boundary_corners)
        /\ UNCHANGED <<obstacles, next_id, ui>>

Next ==
    \/ AddObstacle
    \/ RemoveObstacle
    \/ RemoveNearestObstacle
    \/ ClearAll
    \/ CheckSegmentCollision
    \/ FilterWaypoints

Spec == Init /\ [][Next]_vars

----------------------------------------------------------------------------
(* line_intersects_circle on every segment and circle of a small lattice *)

\* lattice coordinates -GridMax..GridMax, radii 0..RadiusMax
GridMax == 2

RadiusMax == 3

GridPoints == (-GridMax..GridMax) \X (-GridMax..GridMax)

GeomCenters == {<<0, 0>>, <<1, -1>>}

InitGeom ==
    /\ obstacles = <<>>
    /\ next_id = 1
    /\ op = "init"
    /\ ui = ui_init
    /\ args \in [p1 : GridPoints, p2 : GridPoints, center : GeomCenters,
                 radius_m : 0..RadiusMax]
    /\ ret = FALSE

LineIntersectsCircle ==
    /\ op = "init"
    /\ op' = "line_intersects_circle"
    /\ ret' = line_intersects_circle(args.p1, args.p2, args.center, args.radius_m)
    /\ UNCHANGED <<obstacles, next_id, args, ui>>

NextGeom == LineIntersectsCircle

SpecGeom == InitGeom /\ [][NextGeom]_vars

----------------------------------------------------------------------------
(* _identify_scan_segments on every short path over a few points *)

\* paths of at most this many waypoints
MaxSegLen == 4

RECURSIVE SeqsUpTo(_, _)
SeqsUpTo(S, n) ==
    IF n = 0
    THEN {<<>>}
    ELSE LET shorter == SeqsUpTo(S, n - 1)
         IN  shorter \cup {Append(w, x) : w \in {v \in shorter : Len(v) = n - 1}, x \in S}

SegPoints == {<<0, 0>>, <<5, 0>>, <<100, 0>>, <<0, 60>>}

\* adjacent distances 100, 5, 100, 5
ExamplePath == <<<<0, 0>>, <<100, 0>>, <<105, 0>>, <<205, 0>>, <<210, 0>>>>

InitSeg ==
    /\ obstacles = <<>>
    /\ next_id = 1
    /\ op = "init"
    /\ ui = ui_init
    /\ args \in [waypoints : SeqsUpTo(SegPoints, MaxSegLen) \cup {ExamplePath}]
    /\ ret = <<>>

IdentifyScanSegments ==
    /\ op = "init"
    /\ op' = "identify_scan_segments"
    /\ ret' = identify_scan_segments(args.waypoints)
    /\ UNCHANGED <<obstacles, next_id, args, ui>>

NextSeg == IdentifyScanSegments

SpecSeg == InitSeg /\ [][NextSeg]_vars

----------------------------------------------------------------------------
(* route on every short path over the corners of a scan rectangle, with a  *)
(* registry of obstacles on, beside and off the scan lines, and a boundary *)

\* paths of at most this many waypoints
MaxLen == 3

RoutePoints == {<<0, 0>>, <<0, 32>>, <<4, 32>>, <<4, 0>>}

\* on the line lat = 0; beside it; far from every line; on an endpoint; touching
\* the line lat = 0
RouteObstacles ==
    {[center |-> <<0, 16>>, radius |-> 3, safe_distance |-> 2],
     [center |-> <<-3, 16>>, radius |-> 3, safe_distance |-> 2],
     [center |-> <<20, 16>>, radius |-> 3, safe_distance |-> 2],
     [center |-> <<0, 0>>, radius |-> 5, safe_distance |-> 0],
     [center |-> <<5, 16>>, radius |-> 4, safe_distance |-> 1]}

\* the registries add_obstacle builds from them: one obstacle, or two
RouteRegistries ==
    {<<>>}
    \cup {<<Obstacle(1, o.center, o.radius, o.safe_distance)>> : o \in RouteObstacles}
    \cup {<<Obstacle(1, o.center, o.radius, o.safe_distance),
            Obstacle(2, q.center, q.radius, q.safe_distance)>> :
            o \in RouteObstacles, q \in RouteObstacles}

\* everything; lon <= 16 only; lat >= -1 only
HalfRect == Polygon(<<<<-40, -8>>, <<-40, 16>>, <<40, 16>>, <<40, -8>>>>)

NorthRect == Polygon(<<<<-1, -8>>, <<-1, 40>>, <<40, 40>>, <<40, -8>>>>)

Boundaries == {NoBoundary, Polygon(<<>>), BigRect, HalfRect, NorthRect}

\* the bypass points of p1 -> p2 around obstacle are lattice points
DetourExact(p1, p2, obstacle) ==
    LET dx == (p2[2] - p1[2]) * cos_lat(obstacle.center[1])
        dy == p2[1] - p1[1]
        len_sq == dx * dx + dy * dy
        radius_num == effective_radius(obstacle) * DetourNum
    IN  /\ len_sq > 0
        /\ IsSquare(len_sq)
        /\ Divides(TDen, dx)
        /\ Divides(TDen, dy)
        /\ Divides(DetourDen * Sqrt(len_sq), dx * radius_num)
        /\ Divides(DetourDen * Sqrt(len_sq), dy * radius_num)

\* every detour that route(waypoints) generates has lattice points
Representable(obs, waypoints) ==
    \/ obs = <<>>
    \/ LET scan_segments == identify_scan_segments(waypoints)
       IN  \A k \in 1..Len(scan_segments) :
               LET p1 == waypoints[scan_segments[k].start + 1]
                   p2 == waypoints[scan_segments[k].end + 1]
                   colliding == check_segment_collision(obs, p1, p2)
               IN  (/\ scan_segments[k].type = "scan"
                    /\ colliding # <<>>
                    /\ Len(calculate_line_circle_intersection(
                               p1, p2, first_obstacle(colliding))) >= 2)
                   => DetourExact(p1, p2, first_obstacle(colliding))

InitRoute ==
    /\ obstacles \in RouteRegistries
    /\ next_id = Len(obstacles) + 1
    /\ op = "init"
    /\ ui = ui_init
    /\ args \in [waypoints : SeqsUpTo(RoutePoints, MaxLen), boundary_corners : Boundaries,
                 first : {<<>>}]
    /\ Representable(obstacles, args.waypoints)
    /\ ret = [exc |-> "None", value |-> <<>>]

Route ==
    /\ op = "init"
    /\ op' = "route"
    /\ ret' = filter_waypoints_with_detour(obstacles, args.waypoints, args.boundary_corners)
    /\ UNCHANGED <<obstacles, next_id, args, ui>>

\* route on what route returned, with the same registry and boundary; first is the
\* first call's input
Reroute ==
    /\ op = "route"
    /\ ret.exc = "None"
    /\ Representable(obstacles, ret.value)
    /\ op' = "reroute"
    /\ args' = [waypoints |-> ret.value, boundary_corners |-> args.boundary_corners,
                first |-> args.waypoints]
    /\ ret' = filter_waypoints_with_detour(obstacles, ret.value, args.boundary_corners)
    /\ UNCHANGED <<obstacles, next_id, ui>>

NextRoute == Route \/ Reroute

SpecRoute == InitRoute /\ [][NextRoute]_vars

----------------------------------------------------------------------------
(* _segment_scan_line on one colliding segment, called as route calls it, and *)
(* route on the path that is that segment alone                               *)

DetourPoints == {<<0, 0>>, <<0, 16>>, <<0, 32>>, <<16, 0>>}

\* on the line lat = 0 in its middle; beside its first quarter, south and north;
\* on its start; beside its last quarter; wide, around the start of the segment
DetourObstacles ==
    {[center |-> <<0, 16>>, radius |-> 3, safe_distance |-> 2],
     [center |-> <<-3, 8>>, radius |-> 3, safe_distance |-> 2],
     [center |-> <<3, 8>>, radius |-> 3, safe_distance |-> 2],
     [center |-> <<0, 0>>, radius |-> 5, safe_distance |-> 0],
     [center |-> <<-3, 24>>, radius |-> 4, safe_distance |-> 1],
     [center |-> <<8, 3>>, radius |-> 5, safe_distance |-> 5]}

DetourRegistries ==
    {<<Obstacle(1, o.center, o.radius, o.safe_distance)>> : o \in DetourObstacles}
    \cup {<<Obstacle(1, o.center, o.radius, o.safe_distance),
            Obstacle(2, q.center, q.radius, q.safe_distance)>> :
            o \in DetourObstacles, q \in {r \in DetourObstacles : r.radius = 3}}

\* lon >= 16 only
FarRect == Polygon(<<<<-40, 16>>, <<-40, 40>>, <<40, 40>>, <<40, 16>>>>)

DetourBoundaries == {NoBoundary, Polygon(<<>>), BigRect, HalfRect, FarRect, NorthRect}

\* p1 -> p2 collides, and the detour around the first colliding obstacle, if one
\* is generated, has lattice points
InitDetour ==
    /\ obstacles \in DetourRegistries
    /\ next_id = Len(obstacles) + 1
    /\ op = "init"
    /\ ui = ui_init
    /\ args \in [p1 : DetourPoints, p2 : DetourPoints, boundary_corners : DetourBoundaries]
    /\ check_segment_collision(obstacles, args.p1, args.p2) # <<>>
    /\ LET obstacle == first_obstacle(check_segment_collision(obstacles, args.p1, args.p2))
       IN  Len(calculate_line_circle_intersection(args.p1, args.p2, obstacle)) >= 2
               => DetourExact(args.p1, args.p2, obstacle)
    /\ ret = [exc |-> "None", value |-> <<>>]

SegmentScanLine ==
    /\ op = "init"
    /\ op' = "segment_scan_line"
    /\ ret' = segment_scan_line(args.p1, args.p2,
                                check_segment_collision(obstacles, args.p1, args.p2),
                                args.boundary_corners)
    /\ UNCHANGED <<obstacles, next_id, args, ui>>

RouteSegment ==
    /\ op = "init"
    /\ op' = "route"
    /\ ret' = filter_waypoints_with_detour(obstacles, <<args.p1, args.p2>>,
                                           args.boundary_corners)
    /\ UNCHANGED <<obstacles, next_id, args, ui>>

NextDetour == SegmentScanLine \/ RouteSegment

SpecDetour == InitDetour /\ [][NextDetour]_vars

----------------------------------------------------------------------------
(* point_in_polygon on every polygon of at most MaxVertices vertices over a *)
(* few lattice points                                                       *)

MaxVertices == 4

PipVertices == {<<0, 0>>, <<0, 4>>, <<4, 4>>, <<4, 0>>, <<2, 2>>}

\* inside, on vertices, on edges, outside on every side
PipPoints ==
    {<<1, 1>>, <<2, 2>>, <<0, 0>>, <<2, 4>>, <<4, 2>>, <<3, 0>>, <<5, 2>>, <<-1, 3>>,
     <<2, 5>>, <<1, 3>>}

InitPip ==
    /\ obstacles = <<>>
    /\ next_id = 1
    /\ op = "init"
    /\ ui = ui_init
    /\ args \in [point : PipPoints, polygon : SeqsUpTo(PipVertices, MaxVertices)]
    /\ ret = pip_init

\* ret is the loop state the call ends in
PointInPolygon ==
    /\ op = "init"
    /\ op' = "point_in_polygon"
    /\ ret' = pip_run(args.point, args.polygon)
    /\ UNCHANGED <<obstacles, next_id, args, ui>>

NextPip == PointInPolygon

SpecPip == InitPip /\ [][NextPip]_vars

----------------------------------------------------------------------------
(* The UI extension as a state machine: every event handler, in any order.  *)
(* The click handlers are taken whenever a click can come, whichever handler *)
(* the map widget has installed.                                            *)

UIClicks == {<<0, 0>>, <<0, 8>>}

\* slider positions
RadiusValues == {3, 5}

SafeDistanceValues == {1, 2}

InitUI ==
    /\ obstacles = <<>>
    /\ next_id = 1
    /\ op = "init"
    /\ ui = ui_init
    /\ args = [none |-> TRUE]
    /\ ret = [none |-> TRUE]

ToggleCreateMode ==
    /\ ui' = toggle_create_mode(ui)
    /\ op' = "toggle_create_mode"
    /\ args' = [none |-> TRUE]
    /\ UNCHANGED <<obstacles, next_id, ret>>

ToggleDeleteMode ==
    /\ ui' = toggle_delete_mode(ui)
    /\ op' = "toggle_delete_mode"
    /\ args' = [none |-> TRUE]
    /\ UNCHANGED <<obstacles, next_id, ret>>

OnCreateClick ==
    \E coords \in UIClicks :
        LET r == on_create_click(obstacles, ui, next_id, coords)
        IN  /\ Len(obstacles) < MaxObstacles
            /\ next_id <= MaxAdds
            /\ obstacles' = r.obstacles
            /\ ui' = r.ui
            /\ next_id' = next_id + 1
            /\ op' = "on_create_click"
            /\ args' = [none |-> FALSE, coords |-> coords]
            /\ UNCHANGED ret

OnDeleteClick ==
    \E coords \in UIClicks :
        LET r == on_delete_click(obstacles, ui, coords)
        IN  /\ obstacles' = r.obstacles
            /\ ui' = r.ui
            /\ op' = "on_delete_click"
            /\ args' = [none |-> FALSE, coords |-> coords]
            /\ UNCHANGED <<next_id, ret>>

ClearAllObstacles ==
    LET r == clear_all_obstacles(obstacles, ui)
    IN  /\ obstacles' = r.obstacles
        /\ ui' = r.ui
        /\ op' = "clear_all_obstacles"
        /\ args' = [none |-> TRUE]
        /\ UNCHANGED <<next_id, ret>>

OnRadiusChange ==
    \E value \in RadiusValues :
        LET r == on_radius_change(obstacles, ui, value)
        IN  /\ obstacles' = r.obstacles
            /\ ui' = r.ui
            /\ op' = "on_radius_change"
            /\ args' = [none |-> FALSE, value |-> value]
            /\ UNCHANGED <<next_id, ret>>

OnSafeDistanceChange ==
    \E value \in SafeDistanceValues :
        LET r == on_safe_distance_change(obstacles, ui, value)
        IN  /\ obstacles' = r.obstacles
            /\ ui' = r.ui
            /\ op' = "on_safe_distance_change"
            /\ args' = [none |-> FALSE, value |-> value]
            /\ UNCHANGED <<next_id, ret>>

NextUI ==
    \/ ToggleCreateMode
    \/ ToggleDeleteMode
    \/ OnCreateClick
    \/ OnDeleteClick
    \/ ClearAllObstacles
    \/ OnRadiusChange
    \/ OnSafeDistanceChange

SpecUI == InitUI /\ [][NextUI]_vars

----------------------------------------------------------------------------
(* Properties of route (SpecRoute) *)

Routed == op \in {"route", "reroute"}

\* no adjacent waypoint pair collides with any obstacle of the registry
NoSegmentCollides(obs, waypoints) ==
    \A i \in 1..(Len(waypoints) - 1) :
        check_segment_collision(obs, waypoints[i], waypoints[i + 1]) = <<>>

HasDuplicate(s) == \E i, j \in 1..Len(s) : i # j /\ s[i] = s[j]

\* C1: when no adjacent waypoint pair collides with a registered obstacle, route
\* returns the input itself: the same waypoints, duplicates included, in the same
\* order (also for an input of length 0 or 1 and for the empty registry).
C1_NoCollisionUnchanged ==
    (Routed /\ NoSegmentCollides(obstacles, args.waypoints))
        => ret = [exc |-> "None", value |-> args.waypoints]

\* a path that revisits a waypoint, routed past a registered obstacle it misses
C1_Witness ==
    /\ op = "route"
    /\ obstacles # <<>>
    /\ Len(args.waypoints) = 3
    /\ HasDuplicate(args.waypoints)
    /\ \E k \in 1..2 : identify_scan_segments(args.waypoints)[k].type = "scan"
    /\ NoSegmentCollides(obstacles, args.waypoints)
    /\ ret.value = args.waypoints

DistSq(p, q) == Sq(p[1] - q[1]) + Sq(p[2] - q[2])

Dot(u, v) == u[1] * v[1] + u[2] * v[2]

\* [p1, p2] crosses the one registered obstacle, with both ends outside it
PassesThrough(obs, waypoints) ==
    /\ Len(obs) = 1
    /\ Len(waypoints) = 2
    /\ check_segment_collision(obs, waypoints[1], waypoints[2]) # <<>>
    /\ DistSq(waypoints[1], obs[1].center) >= Sq(effective_radius(obs[1]))
    /\ DistSq(waypoints[2], obs[1].center) >= Sq(effective_radius(obs[1]))

\* entry and exit are the points at 1/4 and 3/4 of p1 -> p2, both moved by one
\* vector v that is perpendicular to p1 -> p2 and 1.2 * radius long (v4 is 4v)
IsBypass(p1, p2, entry, exit, radius) ==
    LET d == <<p2[1] - p1[1], p2[2] - p1[2]>>
        v4 == <<4 * (entry[1] - p1[1]) - d[1], 4 * (entry[2] - p1[2]) - d[2]>>
        w4 == <<4 * (exit[1] - p1[1]) - 3 * d[1], 4 * (exit[2] - p1[2]) - 3 * d[2]>>
    IN  /\ w4 = v4
        /\ Dot(v4, d) = 0
        /\ 25 * Dot(v4, v4) = 16 * 36 * Sq(radius)

C3_Idempotent ==
    op = "reroute" => ret = [exc |-> "None", value |-> args.waypoints]

\* C3, amended: a second pass changes nothing when no adjacent pair of the first
\* pass's output collides with a registered obstacle.
C3_IdempotentOnceClear ==
    (op = "reroute" /\ NoSegmentCollides(obstacles, args.waypoints))
        => ret = [exc |-> "None", value |-> args.waypoints]

\* the first pass inserted a detour that clears every obstacle
C3_Witness ==
    /\ op = "reroute"
    /\ Len(args.waypoints) > Len(args.first)
    /\ NoSegmentCollides(obstacles, args.waypoints)
    /\ ret.value = args.waypoints

\* boundary_corners is None or a polygon with a vertex
ProperBoundary(boundary_corners) ==
    boundary_corners.none \/ boundary_corners.corners # <<>>

\* C8: route returns a sequence in which every input waypoint's value occurs,
\* whatever handled its index, for every boundary that is None or a polygon.
C8_EveryWaypointKept ==
    (Routed /\ ProperBoundary(args.boundary_corners))
        => /\ ret.exc = "None"
           /\ \A i \in 1..Len(args.waypoints) : InSeq(args.waypoints[i], ret.value)

\* a detour was inserted inside a boundary and a revisited waypoint was not
\* appended again
C8_Witness ==
    /\ op = "route"
    /\ ~args.boundary_corners.none
    /\ args.boundary_corners.corners # <<>>
    /\ \E i \in 1..Len(ret.value) : ~InSeq(ret.value[i], args.waypoints)
    /\ Len(ret.value) < Len(args.waypoints) + 2
    /\ \A i \in 1..Len(args.waypoints) : InSeq(args.waypoints[i], ret.value)

\* C9 as claimed: route completes and returns a sequence for every boundary
\* argument, an empty vertex list included.
C9_NeverRaises == Routed => ret.exc = "None"

\* a is b with some elements left out
RECURSIVE IsSubsequence(_, _)
IsSubsequence(a, b) ==
    IF a = <<>>
    THEN TRUE
    ELSE IF b = <<>>
         THEN FALSE
         ELSE IF Head(a) = Head(b)
              THEN IsSubsequence(Tail(a), Tail(b))
              ELSE IsSubsequence(a, Tail(b))

\* C15 as claimed: route keeps the visiting order of the plan, also when the plan
\* revisits a coordinate: the input is a subsequence of the output, which starts
\* with the first input waypoint and ends with the last one (for a boundary that
\* is None or has vertices).
C15_OrderPreserved ==
    (Routed /\ ProperBoundary(args.boundary_corners) /\ args.waypoints # <<>>)
        => /\ ret.exc = "None"
           /\ IsSubsequence(args.waypoints, ret.value)
           /\ ret.value[1] = args.waypoints[1]
           /\ ret.value[Len(ret.value)] = args.waypoints[Len(args.waypoints)]

----------------------------------------------------------------------------
(* Properties of line_intersects_circle (SpecGeom) *)

\* The squared distance from center to the closest point of the segment p1 -> p2
\* (p1 # p2), times |p2 - p1|^2: to an end when the foot of the perpendicular from
\* center falls outside the segment, and else to the line through p1 and p2.
ClosestSqTimesLenSq(p1, p2, center) ==
    LET d == <<p2[1] - p1[1], p2[2] - p1[2]>>
        r1 == <<p1[1] - center[1], p1[2] - center[2]>>
        r2 == <<p2[1] - center[1], p2[2] - center[2]>>
        cross == r1[1] * d[2] - r1[2] * d[1]
    IN  IF Dot(r1, d) >= 0
        THEN Dot(r1, r1) * Dot(d, d)
        ELSE IF Dot(r2, d) <= 0
             THEN Dot(r2, r2) * Dot(d, d)
             ELSE cross * cross

\* C4: for a segment with distinct ends, line_intersects_circle is true exactly
\* when the closest point of the segment is strictly nearer to the centre than
\* effective_radius: a closest approach equal to the radius gives false.
C4_StrictClosestApproach ==
    (op = "line_intersects_circle" /\ args.p1 # args.p2)
        => (ret <=> ClosestSqTimesLenSq(args.p1, args.p2, args.center)
                        < Sq(args.radius_m) * DistSq(args.p1, args.p2))

\* a segment that touches the circle between its ends, and does not collide
C4_Witness ==
    /\ op = "line_intersects_circle"
    /\ args.p1 # args.p2
    /\ args.radius_m > 0
    /\ DistSq(args.p1, args.center) > Sq(args.radius_m)
    /\ DistSq(args.p2, args.center) > Sq(args.radius_m)
    /\ ClosestSqTimesLenSq(args.p1, args.p2, args.center)
           = Sq(args.radius_m) * DistSq(args.p1, args.p2)
    /\ ret = FALSE

\* C5 as claimed: a zero-length segment collides only when its point is strictly
\* inside the circle; a point on the circle does not collide.
C5_DegenerateStrict ==
    (op = "line_intersects_circle" /\ args.p1 = args.p2)
        => (ret <=> DistSq(args.p1, args.center) < Sq(args.radius_m))

----------------------------------------------------------------------------
(* Properties of _identify_scan_segments (SpecSeg) *)

\* the squared distance of the adjacent pair (i - 1, i), indices from 0
PairDistSq(waypoints, i) == DistSq(waypoints[i], waypoints[i + 1])

\* m is the element at index k (from 0) of the ascending list of the N adjacent
\* distances: at most k of them are smaller and more than k are not larger
IsSortedElement(waypoints, k, m) ==
    LET N == Len(waypoints) - 1
    IN  /\ \E i \in 1..N : PairDistSq(waypoints, i) = m
        /\ Cardinality({i \in 1..N : PairDistSq(waypoints, i) < m}) <= k
        /\ Cardinality({i \in 1..N : PairDistSq(waypoints, i) <= m}) > k

\* C6: for n >= 2 waypoints the segmenter returns the n - 1 adjacent pairs
\* (i, i + 1), i = 0..n-2, in order, and labels a pair scan exactly when its
\* distance exceeds 0.6 times the element at index floor(N / 2) of the sorted
\* distances (N = n - 1), turn otherwise; for n < 2 it returns nothing.  Distances
\* 100, 5, 100, 5 give scan, turn, scan, turn.
C6_Segmenter ==
    op = "identify_scan_segments" =>
        LET n == Len(args.waypoints)
        IN  IF n < 2
            THEN ret = <<>>
            ELSE /\ Len(ret) = n - 1
                 /\ \A i \in 1..(n - 1) :
                        /\ ret[i].start = i - 1
                        /\ ret[i].end = i
                        /\ ret[i].type \in {"scan", "turn"}
                        /\ \A m \in {PairDistSq(args.waypoints, j) : j \in 1..(n - 1)} :
                               IsSortedElement(args.waypoints, (n - 1) \div 2, m)
                                   => (ret[i].type = "scan"
                                           <=> 25 * PairDistSq(args.waypoints, i) > 9 * m)
                 /\ \E m \in {PairDistSq(args.waypoints, j) : j \in 1..(n - 1)} :
                        IsSortedElement(args.waypoints, (n - 1) \div 2, m)

\* the path with distances 100, 5, 100, 5
C6_Witness ==
    /\ op = "identify_scan_segments"
    /\ args.waypoints = ExamplePath
    /\ [i \in 1..4 |-> ret[i].type] = <<"scan", "turn", "scan", "turn">>

----------------------------------------------------------------------------
(* Properties of the registry (Spec) *)

Range(s) == {s[i] : i \in 1..Len(s)}

IdsIncrease(s) == \A i, j \in 1..Len(s) : i < j => s[i].id < s[j].id

\* C7: on a non-empty registry remove_nearest_obstacle removes and returns one
\* obstacle, at minimal distance from the point, whatever threshold_m is, and
\* leaves the others in their order; on an empty registry it returns None and
\* changes nothing.
C7_RemoveNearest ==
    op = "remove_nearest_obstacle" =>
        IF args.before = <<>>
        THEN ret.none /\ obstacles = <<>>
        ELSE /\ ~ret.none
             /\ ret.obstacle \in Range(args.before)
             /\ \A o \in Range(args.before) :
                    DistSq(args.coords, ret.obstacle.center) <= DistSq(args.coords, o.center)
             /\ Len(obstacles) = Len(args.before) - 1
             /\ obstacles = SelectSeq(args.before, LAMBDA o : o.id # ret.obstacle.id)

\* the nearest obstacle is farther away than threshold_m, is not the first of the
\* registry, and is removed
C7_Witness ==
    /\ op = "remove_nearest_obstacle"
    /\ Len(args.before) = 2
    /\ ~ret.none
    /\ ret.obstacle = args.before[2]
    /\ DistSq(args.coords, ret.obstacle.center) > Sq(args.threshold_m)
    /\ obstacles = <<args.before[1]>>

\* the colliding obstacle that was inserted first
EarliestColliding(obs, p1, p2) ==
    CHOOSE o \in Range(obs) :
        /\ line_intersects_circle(p1, p2, o.center, effective_radius(o))
        /\ \A q \in Range(obs) :
               line_intersects_circle(p1, p2, q.center, effective_radius(q)) => o.id <= q.id

----------------------------------------------------------------------------
(* Properties of the detour planner (SpecDetour) *)

\* the first of the obstacles that args.p1 -> args.p2 collides with
Collided == check_segment_collision(obstacles, args.p1, args.p2)[1]

\* The circle of radius effective_radius around the obstacle's centre meets the
\* segment p1 -> p2 at two parameters in [0, 1]: p1 # p2, neither end is strictly
\* inside the circle, the foot of the perpendicular from the centre falls on the
\* segment, and the line through p1 and p2 comes within the radius of the centre.
TwoCrossings(p1, p2, obstacle) ==
    LET d == <<p2[1] - p1[1], p2[2] - p1[2]>>
        r1 == <<p1[1] - obstacle.center[1], p1[2] - obstacle.center[2]>>
        rr == Sq(effective_radius(obstacle))
    IN  /\ Dot(d, d) > 0
        /\ DistSq(p1, obstacle.center) >= rr
        /\ DistSq(p2, obstacle.center) >= rr
        /\ 0 <= -Dot(r1, d)
        /\ -Dot(r1, d) <= Dot(d, d)
        /\ Sq(Dot(r1, d)) >= Dot(d, d) * (Dot(r1, r1) - rr)

\* C11: for a colliding segment that the circle of radius effective_radius meets
\* at fewer than two parameters in [0, 1] (a zero-length segment, or one with an
\* end inside the circle), the detour planner returns exactly [p1, p2], and route
\* on that segment returns it with no bypass point.
C11_FewCrossingsNoDetour ==
    (op \in {"segment_scan_line", "route"} /\ ~TwoCrossings(args.p1, args.p2, Collided))
        => ret = [exc |-> "None", value |-> <<args.p1, args.p2>>]

\* a segment that starts inside the circle and leaves it, inside a boundary that
\* would keep a bypass point
C11_Witness ==
    /\ op = "segment_scan_line"
    /\ args.p1 # args.p2
    /\ args.boundary_corners = BigRect
    /\ DistSq(args.p1, Collided.center) < Sq(effective_radius(Collided))
    /\ DistSq(args.p2, Collided.center) > Sq(effective_radius(Collided))
    /\ ~TwoCrossings(args.p1, args.p2, Collided)
    /\ ret.value = <<args.p1, args.p2>>

\* C12: when the detour planner generates a detour and a boundary polygon is
\* given, it returns [p1], then the bypass points for which point_in_polygon is
\* true, entry (0.25) before exit (0.75), then [p2]: 4 points when both pass, 3
\* when one does, and exactly [p1, p2] when none does.  With no boundary both
\* bypass points are kept.
C12_BoundaryValidation ==
    (/\ op = "segment_scan_line"
     /\ TwoCrossings(args.p1, args.p2, Collided)
     /\ ProperBoundary(args.boundary_corners))
        => LET bypass == generate_tangent_detour(args.p1, args.p2, Collided)
               passes(dp) ==
                   \/ args.boundary_corners.none
                   \/ point_in_polygon(dp, args.boundary_corners.corners).value
               kept == SelectSeq(bypass, passes)
           IN  /\ Len(bypass) = 2
               /\ IsBypass(args.p1, args.p2, bypass[1], bypass[2],
                           effective_radius(Collided))
               /\ ret = [exc |-> "None", value |-> <<args.p1>> \o kept \o <<args.p2>>]
               /\ Len(ret.value) = 2 + Cardinality({k \in 1..2 : passes(bypass[k])})
               /\ args.boundary_corners.none => Len(ret.value) = 4

\* the boundary holds the entry point and not the exit point, and the planner
\* returns three points
C12_Witness ==
    /\ op = "segment_scan_line"
    /\ args.boundary_corners = HalfRect
    /\ TwoCrossings(args.p1, args.p2, Collided)
    /\ Len(ret.value) = 3
    /\ ret.value[1] = args.p1
    /\ ret.value[2][2] < 16
    /\ 4 * (ret.value[2][2] - args.p1[2]) = args.p2[2] - args.p1[2]
    /\ ret.value[3] = args.p2

\* C13 as claimed: every bypass point the detour planner returns lies outside
\* the safety envelope of the obstacle it goes around, at a distance of at least
\* effective_radius from its centre.
C13_BypassOutsideEnvelope ==
    (op = "segment_scan_line" /\ ret.exc = "None")
        => \A i \in 2..(Len(ret.value) - 1) :
               DistSq(ret.value[i], Collided.center) >= Sq(effective_radius(Collided))

----------------------------------------------------------------------------
(* Properties of point_in_polygon (SpecPip) *)

\* the edges polygon[i] -> polygon[i % n + 1] with both ends at one longitude
\* and at different latitudes
MeridianEdges(polygon) ==
    {i \in 1..Len(polygon) :
        /\ polygon[i][2] = polygon[(i % Len(polygon)) + 1][2]
        /\ polygon[i][1] # polygon[(i % Len(polygon)) + 1][1]}

\* C14 as claimed: among the calls of point_in_polygon that can be made, one
\* reads xinters in `lat <= xinters` in an iteration that has not assigned it, as
\* an unbound name or as the value an earlier edge left.
C14_UnsetReadReachable ==
    op = "init" =>
        \E point \in PipPoints, polygon \in SeqsUpTo(PipVertices, MaxVertices) :
            \/ pip_run(point, polygon).exc = "UnboundLocalError"
            \/ pip_run(point, polygon).stale

\* C14, amended: no call of point_in_polygon reads xinters in an iteration that
\* has not assigned it.  An edge with lon1 == lon2 never reaches the comparison,
\* because lon > min(lon1, lon2) and lon <= max(lon1, lon2) cannot both hold.
C14_XintersAssignedWhenRead ==
    op = "point_in_polygon" => (ret.exc # "UnboundLocalError" /\ ~ret.stale)

\* the point is on the longitude of an edge with lon1 == lon2 and not north of
\* it, and that edge comes after one that assigned xinters
C14_Witness ==
    /\ op = "point_in_polygon"
    /\ ret.exc = "None"
    /\ ret.xset
    /\ ~ret.stale
    /\ \E i \in MeridianEdges(args.polygon) :
           /\ i > 1
           /\ args.polygon[1][2] # args.polygon[2][2]
           /\ args.point[2] = args.polygon[i][2]
           /\ args.point[1] <= Max2(args.polygon[i][1],
                                    args.polygon[(i % Len(args.polygon)) + 1][1])

----------------------------------------------------------------------------
(* Properties of the UI extension (SpecUI) *)

\* the identities of the Obstacle objects the registry holds
Registered == {obstacles[i].id : i \in 1..Len(obstacles)}

\* C16: after any sequence of UI events selected_obstacle is None or an obstacle
\* the registry holds, so a slider change sets the radius or safe distance of a
\* registered obstacle only, and no obstacle that was removed is drawn on the map.
C16_SelectedIsRegistered ==
    /\ ui.selected_obstacle # 0 => ui.selected_obstacle \in Registered
    /\ ui.displayed \subseteq Registered
    /\ (op = "on_radius_change" /\ ui.selected_obstacle # 0)
           => \E i \in 1..Len(obstacles) :
                  /\ obstacles[i].id = ui.selected_obstacle
                  /\ obstacles[i].radius = args.value
    /\ (op = "on_safe_distance_change" /\ ui.selected_obstacle # 0)
           => \E i \in 1..Len(obstacles) :
                  /\ obstacles[i].id = ui.selected_obstacle
                  /\ obstacles[i].safe_distance = args.value

\* the selected obstacle was deleted while another one stayed registered, and a
\* slider change after that changed nothing in the registry
C16_Witness ==
    /\ op = "on_radius_change"
    /\ next_id = 3
    /\ Len(obstacles) = 1
    /\ obstacles[1].id = 1
    /\ ui.selected_obstacle = 0
    /\ obstacles[1].radius # args.value
    /\ ui.displayed = {1}

====
